---- MODULE Spec2Model ----
(***************************************************************************)
(* sozu-acme (src/main.rs): one run of the ACME HTTP-challenge tool.       *)
(* The main thread drives the proxy over a blocking command channel        *)
(* (order_command), a spawned thread serves the challenge over HTTP.       *)
(* Each action runs one thread from one blocking call to the next.         *)
(***************************************************************************)
EXTENDS Naturals, Sequences, FiniteSets

\* ---------------------------------------------------------------- bounds
\* number of distinct message ids the model distinguishes
NumIds == 2
\* None / Processing results one order_command may read before a final one
MaxReads == 2
\* HTTP requests answered 404 before the model stops sending such requests
MaxRequests == 2

Ids == 1..NumIds
AppIds == {"ID-abc123", "app"}
Tokens == {"tok1", "tok2"}

\* ------------------------------------------------------- inputs of main
domain == "example.test"
token == "tok1"
address == <<"127.0.0.1", "port">>
path == <<"/.well-known/acme-challenge/", token>>
path2 == path
key_authorization == <<token, ".", "thumbprint">>
Urls == {<<"/.well-known/acme-challenge/", t>> : t \in Tokens} \cup {<<"/">>}

VARIABLES
  app_id,         \* --id argument
  mainpc,         \* statement of main the main thread is at
  callpc,         \* position inside set_up_proxying/remove_proxying/add_certificate
  opc,            \* position inside order_command
  ordRes,         \* value the last order_command returned
  id,             \* id of the last ConfigMessage written, the one waited on
  sent,           \* the orders of the ConfigMessages written, in order
  outcome,        \* per written message: how its order_command ended
  got,            \* what read_message returned to the current order_command
  chanOpen,       \* the command socket is still readable
  ret,            \* return values of the three compound functions
  server_thread,  \* "unspawned", "running", or the closure's return value
  responses,      \* what the HTTP server answered to which request, in order
  load_failed,    \* which of add_certificate's loads gave an error
  logged          \* error!/info! lines written so far

vars == <<app_id, mainpc, callpc, opc, ordRes, id, sent, outcome, got,
          chanOpen, ret, server_thread, responses, load_failed, logged>>

\* ------------------------------------------------------------- messages
None == [id |-> 0, status |-> "None"]
Answers == [id : Ids, status : {"Processing", "Ok", "Error"}]

HttpFront(a, h, p) == [app_id |-> a, hostname |-> h, path_begin |-> p]
Backend(a, addr) == [app_id |-> a, backend_id |-> <<a, "-0">>, address |-> addr]

AddHttpFront(a, h, p) == [kind |-> "AddHttpFront", data |-> HttpFront(a, h, p)]
AddBackend(a, addr) == [kind |-> "AddBackend", data |-> Backend(a, addr)]
RemoveHttpFront(a, h, p) == [kind |-> "RemoveHttpFront", data |-> HttpFront(a, h, p)]
\* remove_proxying naming another backend than set_up_proxying
RemoveBackend_other_id(a, addr) ==
  [kind |-> "RemoveBackend",
   data |-> [app_id |-> a, backend_id |-> <<a, "-1">>, address |-> addr]]

RemoveBackend(a, addr) == [kind |-> "RemoveBackend", data |-> Backend(a, addr)]
AddCertificate(h) == [kind |-> "AddCertificate", data |-> [names |-> <<h>>]]
AddHttpsFront(a, h, p) ==
  [kind |-> "AddHttpsFront",
   data |-> [app_id |-> a, hostname |-> h, path_begin |-> p, fingerprint |-> "fingerprint"]]

BoolStr(b) == IF b THEN "true" ELSE "false"
Last(s) == s[Len(s)]
Kinds == [k \in 1..Len(sent) |-> sent[k].kind]

\* main spawning the HTTP thread before set_up_proxying
Init_spawned_first ==
  /\ app_id \in AppIds
  /\ mainpc = "set_up_proxying"
  /\ callpc = "enter"
  /\ opc = "idle"
  /\ ordRes = FALSE
  /\ id = 1
  /\ sent = <<>>
  /\ outcome = <<>>
  /\ got = <<>>
  /\ chanOpen = TRUE
  /\ ret = [f \in {"set_up_proxying", "remove_proxying", "add_certificate"} |-> "pending"]
  /\ server_thread = "running"
  /\ responses = <<>>
  /\ load_failed = {}
  /\ logged = {}

\* ----------------------------------------------------------------- Init
Init ==
  /\ app_id \in AppIds
  /\ mainpc = "set_up_proxying"
  /\ callpc = "enter"
  /\ opc = "idle"
  /\ ordRes = FALSE
  /\ id = 1
  /\ sent = <<>>
  /\ outcome = <<>>
  /\ got = <<>>
  /\ chanOpen = TRUE
  /\ ret = [f \in {"set_up_proxying", "remove_proxying", "add_certificate"} |-> "pending"]
  /\ server_thread = "unspawned"
  /\ responses = <<>>
  /\ load_failed = {}
  /\ logged = {}

\* -------------------------------------------------------- order_command
\* generate_id + write_message: a fresh random id, one message written
order_command_send(order) ==
  \E i \in Ids :
    /\ id' = i
    /\ sent' = Append(sent, order)
    /\ outcome' = Append(outcome, "pending")
    /\ got' = <<>>
    /\ opc' = "read"

\* what read_message can hand back
ReadOutcomes == IF chanOpen THEN Answers \cup {None} ELSE {None}

\* order_command without the id check
IdMismatch_never(i, message) == FALSE

\* the id check of the read loop
IdMismatch(i, message) == i # message.id

\* order_command returning on a Processing answer
StatusResult_processing_ends(status) ==
  CASE status = "Processing" -> "true"
    [] status = "Error" -> "false"
    [] status = "Ok" -> "true"

\* order_command giving up on a Processing answer
StatusResult_processing_fails(status) ==
  CASE status = "Processing" -> "false"
    [] status = "Error" -> "false"
    [] status = "Ok" -> "true"

\* the match on message.status: "loop" or the value returned
StatusResult(status) ==
  CASE status = "Processing" -> "loop"
    [] status = "Error" -> "false"
    [] status = "Ok" -> "true"

\* the None arm of the read loop: log, then "loop" or the value returned
NoAnswerResult == "loop"

\* one iteration of the read loop
order_command_loop ==
  /\ opc = "read"
  /\ mainpc # "panicked"
  /\ \E message \in ReadOutcomes :
       /\ got' = Append(got, message)
       /\ IF message = None
            THEN /\ Len(got) < MaxReads
                 /\ chanOpen' \in {chanOpen, FALSE}
                 /\ logged' = logged \cup {"the proxy didn't answer"}
                 /\ IF NoAnswerResult = "loop"
                      THEN UNCHANGED <<opc, ordRes, outcome>>
                      ELSE /\ opc' = "returned"
                           /\ ordRes' = (NoAnswerResult = "true")
                           /\ outcome' = [outcome EXCEPT ![Len(sent)] = "None"]
                 /\ UNCHANGED mainpc
            ELSE /\ UNCHANGED chanOpen
                 /\ IF IdMismatch(id, message)
                      THEN /\ mainpc' = "panicked"
                           /\ opc' = "idle"
                           /\ outcome' = [outcome EXCEPT ![Len(sent)] = "panic"]
                           /\ UNCHANGED <<ordRes, logged>>
                      ELSE LET r == StatusResult(message.status) IN
                           /\ UNCHANGED mainpc
                           /\ IF r = "loop"
                                THEN /\ Len(got) < MaxReads
                                     /\ UNCHANGED <<opc, ordRes, outcome, logged>>
                                ELSE /\ opc' = "returned"
                                     /\ ordRes' = (r = "true")
                                     /\ outcome' = [outcome EXCEPT ![Len(sent)] = message.status]
                                     /\ logged' = IF r = "true" THEN logged
                                                  ELSE logged \cup {"could not execute order"}
  /\ UNCHANGED <<app_id, callpc, id, sent, ret, server_thread, responses, load_failed>>

\* order_command with a deadline on the read: it can give up and return false
order_command_timeout ==
  \/ order_command_loop
  \/ /\ opc = "read"
     /\ mainpc # "panicked"
     /\ opc' = "returned"
     /\ ordRes' = FALSE
     /\ outcome' = [outcome EXCEPT ![Len(sent)] = "timeout"]
     /\ UNCHANGED <<app_id, mainpc, callpc, id, sent, got, chanOpen, ret,
                    server_thread, responses, load_failed, logged>>

\* order_command after the write: the read loop, left only by return or panic
order_command == order_command_loop

\* --------------------------------------------------- compound functions
\* a function returns r to main, which moves to nextpc and logs `lines`
Return(f, r, nextpc, lines) ==
  /\ ret' = [ret EXCEPT ![f] = BoolStr(r)]
  /\ mainpc' = nextpc
  /\ logged' = logged \cup lines
  /\ callpc' = "enter"
  /\ opc' = "idle"
  /\ UNCHANGED <<id, sent, outcome, got>>

\* main going on after set_up_proxying failed
main_set_up_proxying_ignored(r) ==
  Return("set_up_proxying", r, "spawn", {})

\* main with the test on set_up_proxying's value inverted
main_set_up_proxying_inverted(r) ==
  Return("set_up_proxying", r, IF r THEN "panicked" ELSE "spawn", {})

\* main, after set_up_proxying returned r
main_set_up_proxying(r) ==
  Return("set_up_proxying", r, IF r THEN "spawn" ELSE "panicked", {})

\* set_up_proxying with & for &&
set_up_proxying_step_both(stage, r) == IF stage = "first" THEN "second" ELSE "return"

\* the && of set_up_proxying: after the order at `stage` returned r
set_up_proxying_step(stage, r) == IF stage = "first" /\ r THEN "second" ELSE "return"

set_up_proxying ==
  /\ mainpc = "set_up_proxying"
  /\ \/ /\ callpc = "enter"
        /\ order_command_send(AddHttpFront(app_id, domain, path))
        /\ callpc' = "first"
        /\ UNCHANGED <<mainpc, ret, logged>>
     \/ /\ callpc \in {"first", "second"}
        /\ opc = "returned"
        /\ IF set_up_proxying_step(callpc, ordRes) = "second"
             THEN /\ order_command_send(AddBackend(app_id, address))
                  /\ callpc' = "second"
                  /\ UNCHANGED <<mainpc, ret, logged>>
             ELSE main_set_up_proxying(ordRes)
  /\ UNCHANGED <<app_id, ordRes, chanOpen, server_thread, responses, load_failed>>

\* main treating a failed remove_proxying like a failed set_up_proxying
main_remove_proxying_fatal(r) ==
  Return("remove_proxying", r, IF r THEN "sign_and_save" ELSE "panicked",
         IF r THEN {} ELSE {"could not deactivate proxying"})

\* main, after remove_proxying returned r
main_remove_proxying(r) ==
  Return("remove_proxying", r, "sign_and_save",
         IF r THEN {} ELSE {"could not deactivate proxying"})

\* the && of remove_proxying
remove_proxying_step(stage, r) == IF stage = "first" /\ r THEN "second" ELSE "return"

remove_proxying ==
  /\ mainpc = "remove_proxying"
  /\ \/ /\ callpc = "enter"
        /\ order_command_send(RemoveHttpFront(app_id, domain, path2))
        /\ callpc' = "first"
        /\ UNCHANGED <<mainpc, ret, logged>>
     \/ /\ callpc \in {"first", "second"}
        /\ opc = "returned"
        /\ IF remove_proxying_step(callpc, ordRes) = "second"
             THEN /\ order_command_send(RemoveBackend(app_id, address))
                  /\ callpc' = "second"
                  /\ UNCHANGED <<mainpc, ret, logged>>
             ELSE main_remove_proxying(ordRes)
  /\ UNCHANGED <<app_id, ordRes, chanOpen, server_thread, responses, load_failed>>

\* main, after add_certificate returned r
main_add_certificate(r, lines) ==
  Return("add_certificate", r, "exit",
         lines \cup (IF r THEN {"new certificate set up"}
                          ELSE {"could not add new certificate"}))

\* Config::load_file of the three paths and calculate_fingerprint
Loads == {"certificate", "fingerprint", "chain", "key"}

\* add_certificate going on without the key
add_certificate_load_no_key(l) ==
  IF "certificate" \in l THEN "could not load file"
  ELSE IF "fingerprint" \in l THEN "could not calculate fingerprint for certificate"
  ELSE IF "chain" \in l THEN "could not load certificate chain"
  ELSE "ok"

\* the nested matches of add_certificate; l: the loads that give an error
add_certificate_load(l) ==
  IF "certificate" \in l THEN "could not load file"
  ELSE IF "fingerprint" \in l THEN "could not calculate fingerprint for certificate"
  ELSE IF "chain" \in l THEN "could not load certificate chain"
  ELSE IF "key" \in l THEN "could not load key"
  ELSE "ok"

\* add_certificate with & for &&
add_certificate_step_both(stage, r) == IF stage = "first" THEN "second" ELSE "return"

\* the && of add_certificate
add_certificate_step(stage, r) == IF stage = "first" /\ r THEN "second" ELSE "return"

add_certificate ==
  /\ mainpc = "add_certificate"
  /\ \/ /\ callpc = "enter"
        /\ \E l \in SUBSET Loads :
             /\ load_failed' = l
             /\ IF add_certificate_load(l) = "ok"
                  THEN /\ order_command_send(AddCertificate(domain))
                       /\ callpc' = "first"
                       /\ UNCHANGED <<mainpc, ret, logged>>
                  ELSE main_add_certificate(FALSE, {add_certificate_load(l)})
     \/ /\ callpc \in {"first", "second"}
        /\ opc = "returned"
        /\ IF add_certificate_step(callpc, ordRes) = "second"
             THEN /\ order_command_send(AddHttpsFront(app_id, domain, <<>>))
                  /\ callpc' = "second"
                  /\ UNCHANGED <<mainpc, ret, logged>>
             ELSE main_add_certificate(ordRes, {})
        /\ UNCHANGED load_failed
  /\ UNCHANGED <<app_id, ordRes, chanOpen, server_thread, responses>>

\* ------------------------------------------------------- the HTTP thread
\* thread::spawn in main
spawn ==
  /\ mainpc = "spawn"
  /\ server_thread' = "running"
  /\ mainpc' = "validate"
  /\ UNCHANGED <<app_id, callpc, opc, ordRes, id, sent, outcome, got, chanOpen,
                 ret, responses, load_failed, logged>>

\* the closure answering 200 to every path under the challenge directory
respond_prefix(url) ==
  IF url[1] = path[1]
    THEN [url |-> url, status_code |-> 200, data |-> key_authorization]
    ELSE [url |-> url, status_code |-> 404, data |-> "not found"]

\* the closure's if on request.url(): the response it sends
respond(url) ==
  IF url = path
    THEN [url |-> url, status_code |-> 200, data |-> key_authorization]
    ELSE [url |-> url, status_code |-> 404, data |-> "not found"]

\* one iteration of the closure's loop: server.recv() gave Err or a request
server_recv ==
  /\ server_thread = "running"
  /\ mainpc # "panicked"
  /\ \/ /\ server_thread' = "false"
        /\ UNCHANGED responses
     \/ \E url \in Urls :
          IF respond(url).status_code = 200
            THEN /\ responses' = Append(responses, respond(url))
                 /\ server_thread' = "true"
            ELSE /\ Len(responses) < MaxRequests
                 /\ responses' = Append(responses, respond(url))
                 /\ UNCHANGED server_thread
  /\ UNCHANGED <<app_id, mainpc, callpc, opc, ordRes, id, sent, outcome, got,
                 chanOpen, ret, load_failed, logged>>

\* ------------------------------------------------------- the rest of main
\* main tearing the route down when validate() fails
validate_cleanup ==
  /\ mainpc = "validate"
  /\ \E ok \in BOOLEAN : mainpc' = IF ok THEN "join" ELSE "remove_proxying"
  /\ UNCHANGED <<app_id, callpc, opc, ordRes, id, sent, outcome, got, chanOpen,
                 ret, server_thread, responses, load_failed, logged>>

\* sleep, then challenge.validate().expect(..)
validate ==
  /\ mainpc = "validate"
  /\ \E ok \in BOOLEAN : mainpc' = IF ok THEN "join" ELSE "panicked"
  /\ UNCHANGED <<app_id, callpc, opc, ordRes, id, sent, outcome, got, chanOpen,
                 ret, server_thread, responses, load_failed, logged>>

\* main not testing the value server_thread.join() gave
main_join_ignored(res) == "remove_proxying"

\* main installing the certificate without the teardown
main_join_skip_teardown(res) == IF res THEN "sign_and_save" ELSE "exit"

\* where main goes with the value server_thread.join() gave
main_join(res) == IF res THEN "remove_proxying" ELSE "exit"

\* main going on to the teardown without joining the thread
join_detached ==
  /\ mainpc = "join"
  /\ mainpc' = "remove_proxying"
  /\ UNCHANGED <<app_id, callpc, opc, ordRes, id, sent, outcome, got, chanOpen,
                 ret, server_thread, responses, load_failed, logged>>

\* server_thread.join() and the if on its value
join ==
  /\ mainpc = "join"
  /\ server_thread \in {"true", "false"}
  /\ mainpc' = main_join(server_thread = "true")
  /\ logged' = IF mainpc' = "remove_proxying" THEN logged
               ELSE logged \cup {"did not receive challenge request"}
  /\ UNCHANGED <<app_id, callpc, opc, ordRes, id, sent, outcome, got, chanOpen,
                 ret, server_thread, responses, load_failed>>

\* the calls of sign_and_save that can fail
SignSteps == {"sign_certificate", "save_signed_certificate", "File::create",
              "write_intermediate_certificate", "save_private_key"}

\* main without the expect on sign_and_save
main_sign_and_save_ignored(failed) == "add_certificate"

\* where main goes once sign_and_save failed at `failed` ("none": it returned Ok)
main_sign_and_save(failed) == IF failed = "none" THEN "add_certificate" ELSE "panicked"

sign_and_save ==
  /\ mainpc = "sign_and_save"
  /\ \E failed \in SignSteps \cup {"none"} :
       /\ mainpc' = main_sign_and_save(failed)
       /\ logged' = IF failed = "none" THEN logged \cup {"new certificate saved"}
                    ELSE logged
  /\ UNCHANGED <<app_id, callpc, opc, ordRes, id, sent, outcome, got, chanOpen,
                 ret, server_thread, responses, load_failed>>

Next ==
  \/ set_up_proxying
  \/ order_command
  \/ spawn
  \/ validate
  \/ server_recv
  \/ join
  \/ remove_proxying
  \/ sign_and_save
  \/ add_certificate

Spec == Init /\ [][Next]_vars

\* the main thread and the HTTP thread both keep running while they can;
\* what the proxy and HTTP clients send is up to them
MainThread ==
  set_up_proxying \/ spawn \/ validate \/ join \/ remove_proxying
    \/ sign_and_save \/ add_certificate

FairSpec == Spec /\ WF_vars(MainThread)

\* ================================================================ claims
Sent(kind) == \E k \in 1..Len(sent) : Kinds[k] = kind
Codes == [k \in 1..Len(responses) |-> responses[k].status_code]
Accepted(m) == m # None /\ m.status \in {"Processing", "Ok", "Error"}

\* C1: every answer order_command takes as Processing, Ok or Error carries
\* the id of the request in flight; an answer with another id is the last
\* thing read, main has panicked on it, and once main has panicked no
\* further message is written to the channel.
C1_Correlation ==
  /\ [](\A k \in 1..Len(got) :
          (Accepted(got[k]) /\ got[k].id # id)
            => (k = Len(got) /\ mainpc = "panicked" /\ opc = "idle"
                  /\ outcome[Len(sent)] = "panic"))
  /\ [][mainpc = "panicked" => (sent' = sent /\ mainpc' = "panicked")]_vars

C1_Witness ==
  /\ mainpc = "panicked"
  /\ Len(got) = 2
  /\ got[1].status = "Processing" /\ got[1].id = id
  /\ got[2].id # id /\ got[2].status = "Ok"

\* C2 (as claimed): once read_message has returned None to an order_command
\* that was waiting, that order_command has stopped reading and returned
\* false.
C2_NoAnswerReturnsFalse ==
  (got # <<>> /\ Last(got) = None) => (opc # "read" /\ ordRes = FALSE)

\* C3: order_command returns at the first answer that is not Processing,
\* true for Ok and false for Error, for every kind of order; reading a
\* Processing answer leaves it in the loop with nothing returned.
C3_FirstFinalAnswerDecides ==
  /\ [](opc = "returned" =>
          /\ got # <<>>
          /\ Last(got).status \in {"Ok", "Error"}
          /\ Last(got).id = id
          /\ ordRes = (Last(got).status = "Ok")
          /\ outcome[Len(sent)] = Last(got).status
          /\ \A k \in 1..(Len(got) - 1) : got[k].status \in {"Processing", "None"})
  /\ [][(opc = "read" /\ got' # got /\ Last(got').status = "Processing" /\ Last(got').id = id)
          => (opc' = "read" /\ UNCHANGED <<ordRes, outcome, mainpc, callpc, ret, sent>>)]_vars

C3_Witness ==
  /\ opc = "returned"
  /\ Len(got) = 3
  /\ got[1].status = "Processing" /\ got[2].status = "Processing"
  /\ got[3].status = "Error"
  /\ ordRes = FALSE
  /\ Last(Kinds) = "AddHttpsFront"

\* C4: set_up_proxying writes AddHttpFront first and AddBackend only once
\* AddHttpFront was answered Ok; when AddHttpFront is answered Error no
\* AddBackend is ever written and set_up_proxying returns false; it returns
\* true only when both were answered Ok.
C4_SetUpShortCircuit ==
  /\ sent # <<>> => Kinds[1] = "AddHttpFront"
  /\ \A k \in 1..Len(sent) : Kinds[k] = "AddBackend" => (k = 2 /\ outcome[1] = "Ok")
  /\ (sent # <<>> /\ outcome[1] = "Error")
       => /\ ~Sent("AddBackend")
          /\ Len(sent) = 1
          /\ ret["set_up_proxying"] = "false" \/ (mainpc = "set_up_proxying" /\ opc = "returned")
  /\ ret["set_up_proxying"] = "true"
       => (Len(sent) >= 2 /\ Kinds[2] = "AddBackend" /\ outcome[1] = "Ok" /\ outcome[2] = "Ok")

C4_Witness ==
  /\ ret["set_up_proxying"] = "false"
  /\ outcome = <<"Error">>
  /\ mainpc = "panicked"

\* C5 (as claimed): once remove_proxying has returned, RemoveHttpFront and
\* RemoveBackend have both been written, whatever the answers were.
C5_RemoveBackendAlwaysSent ==
  ret["remove_proxying"] # "pending" => (Sent("RemoveHttpFront") /\ Sent("RemoveBackend"))

\* C6: a remove_proxying that returns, true or false, leaves main at
\* sign_and_save, and when sign_and_save succeeds main calls add_certificate
\* next.
C6_InstallAfterTeardown ==
  [][/\ (ret["remove_proxying"] = "pending" /\ ret'["remove_proxying"] # "pending")
          => mainpc' = "sign_and_save"
     /\ (mainpc = "sign_and_save" /\ "new certificate saved" \in logged')
          => (mainpc' = "add_certificate" /\ callpc' = "enter")]_vars

C6_Witness ==
  /\ mainpc = "add_certificate"
  /\ ret["remove_proxying"] = "false"
  /\ "could not deactivate proxying" \in logged
  /\ Sent("AddCertificate")

\* C7: add_certificate writes AddCertificate first and AddHttpsFront only
\* once AddCertificate was answered Ok; when AddCertificate is answered Error
\* no AddHttpsFront is written; add_certificate returns true only when both
\* were answered Ok.
C7_InstallShortCircuit ==
  /\ \A k \in 1..Len(sent) :
       Kinds[k] = "AddHttpsFront"
         => (k > 1 /\ Kinds[k - 1] = "AddCertificate" /\ outcome[k - 1] = "Ok")
  /\ \A k \in 1..Len(sent) :
       (Kinds[k] = "AddCertificate" /\ outcome[k] = "Error")
         => /\ k = Len(sent)
            /\ ret["add_certificate"] = "false" \/ (mainpc = "add_certificate" /\ opc = "returned")
  /\ ret["add_certificate"] = "true"
       => /\ Len(sent) >= 2
          /\ Kinds[Len(sent) - 1] = "AddCertificate" /\ outcome[Len(sent) - 1] = "Ok"
          /\ Kinds[Len(sent)] = "AddHttpsFront" /\ outcome[Len(sent)] = "Ok"

C7_Witness ==
  /\ ret["add_certificate"] = "false"
  /\ Last(Kinds) = "AddCertificate"
  /\ Last(outcome) = "Error"
  /\ mainpc = "exit"

\* C8: when a load or the fingerprint fails, add_certificate returns false
\* to main without writing a message and without reading from the channel.
C8_LoadFailureLeavesChannel ==
  /\ [](load_failed # {}
          => /\ ret["add_certificate"] = "false"
             /\ mainpc = "exit"
             /\ opc = "idle"
             /\ ~Sent("AddCertificate") /\ ~Sent("AddHttpsFront"))
  /\ [][(mainpc = "add_certificate" /\ callpc = "enter" /\ load_failed' # {})
          => UNCHANGED <<sent, outcome, got, id, chanOpen>>]_vars

C8_Witness ==
  /\ load_failed = {"key"}
  /\ ret["add_certificate"] = "false"
  /\ "could not load key" \in logged

\* C9: when set_up_proxying returns false main panics there: the HTTP thread
\* is never spawned, validate is never called and nothing is written to the
\* channel afterwards.
C9_SetUpFailureIsFatal ==
  /\ [](ret["set_up_proxying"] = "false"
          => /\ mainpc = "panicked"
             /\ server_thread = "unspawned"
             /\ \A k \in 1..Len(sent) : Kinds[k] \in {"AddHttpFront", "AddBackend"})
  /\ [][ret["set_up_proxying"] = "false" => sent' = sent]_vars

C9_Witness ==
  /\ ret["set_up_proxying"] = "false"
  /\ outcome = <<"Ok", "Error">>
  /\ mainpc = "panicked"

\* C10 (as claimed): when validate has returned and the HTTP thread has not
\* answered the challenge path, the run ends logging that the challenge was
\* not received.
C10_NotObservedEndsRun ==
  (mainpc = "join" /\ server_thread # "true")
    ~> (mainpc = "exit" /\ "did not receive challenge request" \in logged)

\* C10 (amended): when validate has returned and the HTTP thread has ended
\* on a receive error without answering the challenge path, the run ends
\* logging that the challenge was not received, and nothing more is written
\* to the channel: no removal, no certificate.  While the thread is still
\* serving main stays in join, and it goes on to remove_proxying exactly
\* when the thread returned true.
C10_ThreadFailedEndsRun ==
  /\ (mainpc = "join" /\ server_thread = "false")
       ~> (mainpc = "exit" /\ "did not receive challenge request" \in logged)
  /\ [](server_thread = "false" /\ mainpc \notin {"validate", "join"}
          => /\ mainpc \in {"exit", "panicked"}
             /\ Len(sent) = 2
             /\ ret["add_certificate"] = "pending")
  /\ [](mainpc = "exit" /\ server_thread = "false"
          => "did not receive challenge request" \in logged)
  /\ [][mainpc = "join"
          => /\ server_thread = "running" => mainpc' = "join"
             /\ mainpc' # "join"
                  => (mainpc' = "remove_proxying" <=> server_thread = "true")]_vars

C10_Witness ==
  /\ mainpc = "exit"
  /\ server_thread = "false"
  /\ Codes = <<404, 404>>
  /\ "did not receive challenge request" \in logged

\* C11: the HTTP thread answers every request: 404 to each path other than
\* the challenge path, after which it keeps serving, and 200 with the key
\* authorization to the first request for the challenge path, after which it
\* has returned true and answers nothing more; on a receive error it returns
\* false, and then too it answers nothing more.
C11_SingleShotResponder ==
  /\ [](\A k \in 1..Len(responses) :
          /\ responses[k].url = path
               => /\ responses[k].status_code = 200
                  /\ responses[k].data = key_authorization
                  /\ k = Len(responses)
                  /\ server_thread = "true"
          /\ responses[k].url # path
               => /\ responses[k].status_code = 404
                  /\ responses[k].data = "not found")
  /\ [](server_thread = "true" => (responses # <<>> /\ Last(responses).url = path))
  /\ [](server_thread \in {"unspawned", "false"} => \A k \in 1..Len(responses) : Codes[k] = 404)
  /\ [][(server_thread = "true" \/ server_thread = "false")
          => (responses' = responses /\ server_thread' = server_thread)]_vars
  /\ [][(responses' # responses /\ Last(responses').url # path)
          => (server_thread = "running" /\ server_thread' = "running")]_vars

C11_Witness ==
  /\ server_thread = "true"
  /\ Len(responses) = 3
  /\ responses[1].url = <<"/">>
  /\ responses[2].url = <<"/.well-known/acme-challenge/", "tok2">>
  /\ Codes = <<404, 404, 200>>

SetUpAnsweredOk ==
  /\ Len(sent) >= 2
  /\ Kinds[1] = "AddHttpFront" /\ outcome[1] = "Ok"
  /\ Kinds[2] = "AddBackend" /\ outcome[2] = "Ok"

\* C12: main is at or past challenge.validate() only when AddHttpFront and
\* AddBackend were both written and answered Ok, and validate() is called in
\* such a state only.
C12_ValidateAfterRoute ==
  /\ [](mainpc \in {"validate", "join", "remove_proxying", "sign_and_save",
                    "add_certificate", "exit"}
          => (SetUpAnsweredOk /\ ret["set_up_proxying"] = "true"))
  /\ [][(mainpc = "validate" /\ mainpc' # "validate") => SetUpAnsweredOk]_vars

C12_Witness ==
  /\ mainpc = "join"
  /\ server_thread = "running"
  /\ outcome = <<"Ok", "Ok">>

Teardown == {"RemoveHttpFront", "RemoveBackend", "AddCertificate", "AddHttpsFront"}

\* C13: while the HTTP thread is running no order_command is in progress and
\* none of RemoveHttpFront, RemoveBackend, AddCertificate, AddHttpsFront has
\* been written; every write to and read from the channel happens while the
\* thread is not running, and no step of the thread touches the channel.
C13_JoinBeforeTeardown ==
  /\ [](server_thread = "running"
          => /\ opc = "idle"
             /\ \A k \in 1..Len(sent) : Kinds[k] \notin Teardown)
  /\ [][(sent' # sent \/ got' # got \/ id' # id \/ chanOpen' # chanOpen)
          => (server_thread # "running" /\ server_thread' = server_thread
                /\ responses' = responses)]_vars

C13_Witness ==
  /\ server_thread = "true"
  /\ Len(responses) = 2
  /\ Last(Kinds) = "RemoveBackend"
  /\ opc = "read"

\* C14: every message but the last written has had its final answer, Ok or
\* Error, and a message is written only when main is not waiting for an
\* answer.
C14_OneOutstanding ==
  /\ [](\A k \in 1..(Len(sent) - 1) : outcome[k] \in {"Ok", "Error"})
  /\ [](Len(outcome) = Len(sent))
  /\ [][sent' # sent
          => /\ Len(sent') = Len(sent) + 1
             /\ opc # "read"
             /\ sent # <<>> => Last(outcome) \in {"Ok", "Error"}]_vars

C14_Witness ==
  /\ Len(sent) = 5
  /\ outcome = <<"Ok", "Ok", "Error", "Ok", "pending">>
  /\ Len(got) = 2

\* C15: a RemoveHttpFront written carries the app_id, hostname and path_begin
\* of the AddHttpFront written before it, and a RemoveBackend the app_id,
\* backend_id and address of the AddBackend written before it, the backend_id
\* being the --id argument followed by "-0".
C15_AddRemoveAgree ==
  /\ \A j \in 1..Len(sent) :
       Kinds[j] = "RemoveHttpFront"
         => /\ Kinds[1] = "AddHttpFront"
            /\ sent[j].data = sent[1].data
            /\ sent[j].data = HttpFront(app_id, domain, path)
  /\ \A j \in 1..Len(sent) :
       Kinds[j] = "RemoveBackend"
         => /\ Kinds[2] = "AddBackend"
            /\ sent[j].data = sent[2].data
  /\ \A j \in 1..Len(sent) :
       Kinds[j] \in {"AddBackend", "RemoveBackend"}
         => /\ sent[j].data.app_id = app_id
            /\ sent[j].data.backend_id = <<app_id, "-0">>
            /\ sent[j].data.address = address

C15_Witness ==
  /\ Len(sent) = 4
  /\ Kinds = <<"AddHttpFront", "AddBackend", "RemoveHttpFront", "RemoveBackend">>
  /\ app_id = "app"
  /\ Last(outcome) = "Ok"

\* C16 (as claimed): while set_up_proxying has written AddHttpFront and is
\* still running, the HTTP thread's loop is running.
C16_ThreadRunsDuringSetUp ==
  (mainpc = "set_up_proxying" /\ Sent("AddHttpFront")) => server_thread = "running"

\* C16 (amended): the HTTP thread is spawned only after set_up_proxying
\* returned true: it is not running, and has answered nothing, when
\* AddHttpFront and AddBackend are written, and it has been spawned when
\* validate() is called.
C16_ThreadAfterSetUp ==
  /\ [](server_thread # "unspawned"
          => (ret["set_up_proxying"] = "true" /\ SetUpAnsweredOk))
  /\ [](mainpc = "set_up_proxying" => (server_thread = "unspawned" /\ responses = <<>>))
  /\ [](mainpc = "validate" => server_thread # "unspawned")
  /\ [][(sent' # sent /\ Last(sent').kind \in {"AddHttpFront", "AddBackend"})
          => (server_thread = "unspawned" /\ server_thread' = "unspawned")]_vars

C16_Witness ==
  /\ mainpc = "validate"
  /\ server_thread = "running"
  /\ Len(responses) = 1
  /\ outcome = <<"Ok", "Ok">>

\* C17: order_command returns as soon as it reads an Ok or Error answer with
\* the id of its request, whatever number of Processing answers came before;
\* it leaves the read loop only on reading something other than a Processing
\* answer with that id, and until then main makes no other step: there is no
\* deadline.
C17_NoTimeout ==
  /\ [][(opc = "read" /\ got' # got /\ Last(got').id = id
           /\ Last(got').status \in {"Ok", "Error"})
          => (opc' = "returned" /\ ordRes' = (Last(got').status = "Ok"))]_vars
  /\ [][(opc = "read" /\ opc' # "read")
          => /\ got' # got
             /\ Len(got') = Len(got) + 1
             /\ \/ Last(got') = None
                \/ Last(got').id # id
                \/ Last(got').status \in {"Ok", "Error"}]_vars
  /\ [][(opc = "read" /\ got' = got) => UNCHANGED <<mainpc, callpc, sent, ret, opc>>]_vars

C17_Witness ==
  /\ opc = "read"
  /\ chanOpen
  /\ Len(got) = 2
  /\ \A k \in 1..2 : got[k].status = "Processing" /\ got[k].id = id
  /\ Last(Kinds) = "RemoveHttpFront"

FullRun == <<"AddHttpFront", "AddBackend", "RemoveHttpFront", "RemoveBackend",
             "AddCertificate", "AddHttpsFront">>
AllOk == \A k \in 1..Len(outcome) : outcome[k] \in {"Ok", "pending"}

\* C18: as long as every answer was Ok, the messages written are the first
\* ones of AddHttpFront, AddBackend, RemoveHttpFront, RemoveBackend,
\* AddCertificate, AddHttpsFront, in this order; a run in which the thread
\* answered the challenge, the certificate was saved and loaded and every
\* answer was Ok ends with exactly these six written.
C18_FullRunOrder ==
  /\ AllOk => (Len(sent) <= 6 /\ Kinds = SubSeq(FullRun, 1, Len(sent)))
  /\ (AllOk /\ mainpc = "exit" /\ server_thread = "true" /\ load_failed = {})
       => (Kinds = FullRun /\ ret["add_certificate"] = "true"
             /\ "new certificate saved" \in logged)

C18_Witness ==
  /\ mainpc = "exit"
  /\ Kinds = FullRun
  /\ AllOk
  /\ ret["add_certificate"] = "true"

\* C19: add_certificate is called, and AddCertificate written, only when the
\* thread returned true after answering 200 and sign_and_save returned Ok;
\* when sign_and_save fails main panics there.
C19_InstallOnlyAfterSave ==
  /\ []((mainpc = "add_certificate" \/ ret["add_certificate"] # "pending"
           \/ Sent("AddCertificate") \/ Sent("AddHttpsFront"))
          => /\ server_thread = "true"
             /\ Last(responses).status_code = 200
             /\ "new certificate saved" \in logged)
  /\ [][(mainpc = "sign_and_save" /\ mainpc' # mainpc
           /\ "new certificate saved" \notin logged')
          => mainpc' = "panicked"]_vars

C19_Witness ==
  /\ mainpc = "panicked"
  /\ ret["remove_proxying"] = "true"
  /\ "new certificate saved" \notin logged
  /\ Len(sent) = 4

\* C20: RemoveHttpFront and RemoveBackend are written only after the thread
\* returned true; when it returned false main exits, and when validate()
\* fails main panics, with AddHttpFront and AddBackend, both answered Ok,
\* the only messages ever written.
C20_TeardownOnlyOnSuccess ==
  /\ []((Sent("RemoveHttpFront") \/ Sent("RemoveBackend")
           \/ mainpc = "remove_proxying" \/ ret["remove_proxying"] # "pending")
          => server_thread = "true")
  /\ []((server_thread = "false" /\ mainpc \notin {"validate", "join"})
          => /\ mainpc \in {"exit", "panicked"}
             /\ Kinds = <<"AddHttpFront", "AddBackend">>
             /\ outcome = <<"Ok", "Ok">>)
  /\ [][(mainpc = "validate" /\ mainpc' \notin {"validate", "join"})
          => /\ mainpc' = "panicked"
             /\ Kinds' = <<"AddHttpFront", "AddBackend">>
             /\ outcome' = <<"Ok", "Ok">>]_vars
  /\ [][(mainpc = "exit" \/ mainpc = "panicked") => (mainpc' = mainpc /\ sent' = sent)]_vars

C20_Witness ==
  /\ mainpc = "panicked"
  /\ server_thread = "running"
  /\ Kinds = <<"AddHttpFront", "AddBackend">>
  /\ Len(responses) = 1

====
